---- MODULE Spec2Model ----
(***************************************************************************)
(* Architect-OS simulation loop (src/App.tsx) and its Decision Service     *)
(* (src/services/aiLogic.ts), as a state machine.                          *)
(*                                                                         *)
(* Numbers are fixed point: every coordinate and elevation is an integer   *)
(* number of thousandths (2000 is 2.0).  Strings that the code takes apart *)
(* (learning notes) are sequences of fragments; ":" is the fragment that   *)
(* String.split(':') splits on.  An optional value (x?: T) is the empty    *)
(* sequence when absent and <<v>> when present; an optional position is    *)
(* <<>> or the triple itself; an absent objectType is "".                  *)
(*                                                                         *)
(* React state is kept as the value every queued updater has produced so   *)
(* far; what the callbacks of the last committed render captured is kept   *)
(* apart, in rendered, and is refreshed by Render.                         *)
(***************************************************************************)
EXTENDS Integers, Sequences, FiniteSets, TLC

VARIABLES
    state,          \* useState<SimulationState>
    avatarPos,      \* useState avatarPos
    isProcessing,   \* useState isProcessing
    isAuto,         \* useState isAuto
    currentTask,    \* useState currentTask
    taskProgress,   \* useState taskProgress
    rendered,       \* values captured by the callbacks of the last commit
    renderPending,  \* an update is queued and not yet rendered
    timer,          \* the auto-mode setTimeout is armed
    root,           \* "mounted", "failing" (a queued updater throws), "unmounted"
    ticks,          \* the invocations of runSimulationStep in flight
    started         \* how many invocations have passed the guard so far

vars == <<state, avatarPos, isProcessing, isAuto, currentTask, taskProgress,
          rendered, renderPending, timer, root, ticks, started>>

-----------------------------------------------------------------------------
(* Bounds *)

GoalIdleTicks == 2  \* invocations of the goal specification that place nothing
PlanTicks == 5      \* invocations started in the plan specification
MaxInFlight == 2    \* invocations of runSimulationStep modelled at once
MaxTicks == 2       \* invocations started in the main specification
ProgMaxObjects == 17 \* objects placed in the progression specification
ProgVaried == 4     \* of which the first ProgVaried vary in type and position

-----------------------------------------------------------------------------
(* Constants of the program *)

PROXY_URL == "apiland.yusufsamodin67.workers.dev"

GOAL_SEQUENCE ==
    << "Synthesize Geothermal Energy Core",
       "Deploy Biospheric Life Support Mesh",
       "Construct Neural Uplink Spire",
       "Establish Multi-Sector Synthesis Citadel" >>

Scale == 1000       \* fixed-point unit: thousandths

-----------------------------------------------------------------------------
(* getTerrainHeight: sin(x * 0.2) * cos(z * 0.2) * 1.2, in thousandths.    *)
(* Sine and cosine are summed from their Taylor series, each term obtained *)
(* from the last; every division rounds down.                              *)

TaylorTerms == 8

RECURSIVE TaylorSum(_, _, _, _, _)
TaylorSum(t, term, k, sign, left) ==
    IF left = 0 THEN 0
    ELSE sign * term
         + TaylorSum(t,
                     ((((((term * t) \div Scale) \div (k + 1)) * t) \div Scale) \div (k + 2)),
                     k + 2, -sign, left - 1)

SinMilli(t) == TaylorSum(t, t, 1, 1, TaylorTerms)

CosMilli(t) == TaylorSum(t, Scale, 0, 1, TaylorTerms)

MulMilli(a, b) == (a * b) \div Scale

getTerrainHeight(x, z) ==
    MulMilli(MulMilli(SinMilli((x * 2) \div 10), CosMilli((z * 2) \div 10)), 1200)

-----------------------------------------------------------------------------
(* Values of the data model (src/types.ts) and of the service's answer.    *)

Undefined == << >>

IsDefined(opt) == opt # Undefined

\* A ConstructionPlan whose cursor points at a step: steps[currentStepIndex]
\* is an object and not undefined.
StepDefined(plan) ==
    plan.currentStepIndex >= 0 /\ plan.currentStepIndex < Len(plan.steps)

\* steps[currentStepIndex] (JavaScript indexes from 0).
CurrentStep(plan) == plan.steps[plan.currentStepIndex + 1]

PlanStep(label, type, position) ==
    [label |-> label, type |-> type, position |-> position, status |-> "pending"]

\* Plans the service may emit.  The response schema requires nothing of a
\* plan's cursor, so one of them points past its steps.
PlanTwoSteps ==
    [ planId |-> "plan-two",
      steps |-> << PlanStep("Energy core", "solar_panel", <<4000, 500, 6000>>),
                   PlanStep("Perimeter", "wall", <<-5000, 0, 5000>>) >>,
      currentStepIndex |-> 0 ]

PlanCursorPastEnd ==
    [ planId |-> "plan-past",
      steps |-> << PlanStep("Collector", "water_collector", <<4000, 0, 6000>>) >>,
      currentStepIndex |-> 1 ]

\* Learning notes: two that derive the same title, one without a colon (it
\* is a part of the first one's text), one whose text before the colon is
\* empty.
NoteEnergyA == << "Energy", ":", " cores need flat ground" >>
NoteEnergyB == << "Energy", ":", " panels face the ridge" >>
NoteNoColon == << " cores need flat ground" >>
NoteEmptyTitle == << ":", " untitled insight" >>

Response(action, objectType, position, plan, learningNote, reasoningSteps) ==
    [ action |-> action,
      objectType |-> objectType,
      position |-> position,
      reason |-> "Spatial validation complete.",
      reasoningSteps |-> reasoningSteps,
      learningNote |-> learningNote,
      knowledgeCategory |-> "Architecture",
      taskLabel |-> "Synthesizing Sector",
      plan |-> plan ]

\* JSON texts the model may answer with, already constrained by the
\* response schema (action, reason, reasoningSteps, learningNote,
\* knowledgeCategory and taskLabel are required; the rest is optional).
PlaceResponses ==
    { Response("PLACE", "modular_unit", <<2000, 0, 3000>>, Undefined, NoteEnergyA, << >>),
      Response("PLACE", "", Undefined, Undefined, NoteEnergyB, << "Checking terrain slope" >>),
      Response("PLACE", "", Undefined, <<PlanTwoSteps>>, NoteNoColon, << >>),
      Response("PLACE", "", <<2000, 0, 3000>>, Undefined, NoteEmptyTitle, << >>),
      Response("PLACE", "", Undefined, <<PlanCursorPastEnd>>, NoteEnergyA, << >>),
      Response("PLACE", "solar_panel", <<2000, 0, 3000>>, <<PlanCursorPastEnd>>, NoteEnergyA, << >>) }

MoveResponses ==
    { Response("MOVE", "", <<2000, 0, 3000>>, Undefined, NoteNoColon, << >>),
      Response("MOVE", "", Undefined, <<PlanTwoSteps>>, NoteNoColon, << "Checking terrain slope" >>) }

WaitResponses ==
    { Response("WAIT", "", Undefined, Undefined, NoteNoColon, << >>),
      Response("WAIT", "", Undefined, Undefined, NoteNoColon, << "Checking terrain slope" >>) }

Responses == PlaceResponses \cup MoveResponses \cup WaitResponses

\* What the remote call does: it answers with a JSON text, the transport
\* fails (generateContent rejects), or the text does not parse.
Answers(responses) == { [kind |-> "ok", body |-> <<r>>] : r \in responses }

Failures == { [kind |-> k, body |-> Undefined] : k \in {"transport_error", "parse_error"} }

LLMOutcomes == Answers(Responses) \cup Failures

\* The factor of line 165: a draw of (Math.random() - 0.5) * 15 lies in
\* [-7.5, 7.5).
JitterSpan == 15

\* The two draws of (Math.random() - 0.5) * 15, each in [-7.5, 7.5), as
\* pairs << dx, dz >>.
JitterOffsets == { << -5000, 5000 >>, << 5000, -2000 >> }

FallbackResponse ==
    [ action |-> "WAIT",
      objectType |-> "",
      position |-> Undefined,
      reason |-> "Neural buffer overflow. Recalibrating spatial constraints.",
      reasoningSteps |-> << "Buffer error", "Terrain analysis failed", "Safety protocol: Wait" >>,
      learningNote |-> << "System Stability", ":",
                          " Temporary pause required to clear fragmented spatial data." >>,
      knowledgeCategory |-> "Synthesis",
      taskLabel |-> "Recalibrating Spatial Logic",
      plan |-> Undefined,
      groundingLinks |-> Undefined ]

\* decideNextAction without its catch block: a failure of the remote call or
\* of JSON.parse rejects the promise.
decideNextActionNoCatch(outcome) ==
    IF outcome.kind = "ok"
    THEN [settled |-> "resolved",
          value |-> [groundingLinks |-> << >>] @@ outcome.body[1]]
    ELSE [settled |-> "rejected", value |-> FallbackResponse]

\* decideNextAction, from the remote call on: the try block resolves to the
\* parsed text with groundingLinks: [] spread over it, the catch block to the
\* fixed WAIT response.
decideNextAction(outcome) ==
    IF outcome.kind = "ok"
    THEN [settled |-> "resolved",
          value |-> [groundingLinks |-> << >>] @@ outcome.body[1]]
    ELSE [settled |-> "resolved", value |-> FallbackResponse]

\* The Mistral-based revision of decideNextAction (src/unnamed/part_002).
\* Its remote call answers, fails in transport, answers with empty content
\* (line 95 throws), or answers with a text that does not parse.
MistralFailures ==
    { [kind |-> k, body |-> Undefined] : k \in {"transport_error", "empty", "parse_error"} }

MistralOutcomes == Answers(Responses) \cup MistralFailures

\* Draws of x and z in the catch block, Math.random() * 20 - 10 each, as
\* pairs << x, z >>.
MockDraws == { << 2000, 3000 >>, << -5000, 5000 >> }

\* mockResponses (lines 107-129) for a draw; they have no reasoningSteps, no
\* knowledgeCategory and no plan.
MockResponses(x, z) ==
    LET at == << x, getTerrainHeight(x, z), z >>
        Mock(action, objectType, position, reason, learningNote, taskLabel) ==
            [ Response(action, objectType, position, Undefined, << learningNote >>, << >>)
                EXCEPT !.reason = reason, !.taskLabel = taskLabel, !.knowledgeCategory = "" ]
    IN  { Mock("PLACE", "modular_unit", at, "Mock placement for testing",
               "Simulated construction", "Placing Module"),
          Mock("MOVE", "", at, "Mock movement", "Exploring terrain", "Repositioning"),
          Mock("WAIT", "", Undefined, "Mock standby", "Waiting for conditions", "Standby") }

\* What the revision may return for an outcome of its remote call: the
\* parsed text with groundingLinks: [] spread over it, or from the catch
\* block mockResponses[index] for a random index.
decideNextActionMistral(outcome) ==
    IF outcome.kind = "ok"
    THEN { [settled |-> "resolved",
            value |-> [groundingLinks |-> << >>] @@ outcome.body[1]] }
    ELSE { [settled |-> "resolved", value |-> mock] :
              mock \in UNION { MockResponses(draw[1], draw[2]) : draw \in MockDraws } }

-----------------------------------------------------------------------------
(* The pure parts of runSimulationStep.                                    *)

\* addLog that keeps the three latest entries.
AddLogPruning(s, message, type) ==
    LET all == Append(s.logs, [type |-> type, message |-> message])
    IN  [s EXCEPT !.logs = IF Len(all) > 3 THEN SubSeq(all, Len(all) - 2, Len(all)) ELSE all]

\* addLog's updater; the random id and the timestamp are left out.
AddLog(s, message, type) ==
    [s EXCEPT !.logs = Append(@, [type |-> type, message |-> message])]

\* learningNote.split(':')[0] || "Neural Synthesis"
SplitFirst(note) ==
    IF \E i \in 1..Len(note) : note[i] = ":"
    THEN SubSeq(note, 1, (CHOOSE i \in 1..Len(note) :
                            note[i] = ":" /\ \A j \in 1..(i - 1) : note[j] # ":") - 1)
    ELSE note

DeriveTitle(note) ==
    IF SplitFirst(note) = << >> THEN << "Neural Synthesis" >> ELSE SplitFirst(note)

\* SettlementTierOf with the Citadel test written === 16.
SettlementTierOfExactly(newTotal) ==
    IF newTotal = 16 THEN "Citadel"
    ELSE IF newTotal > 8 THEN "Settlement"
    ELSE IF newTotal > 4 THEN "Colony"
    ELSE "Outpost"

\* SettlementTierOf with the Citadel threshold written >= 15.
SettlementTierOfOffByOne(newTotal) ==
    IF newTotal >= 15 THEN "Citadel"
    ELSE IF newTotal > 8 THEN "Settlement"
    ELSE IF newTotal > 4 THEN "Colony"
    ELSE "Outpost"

SettlementTierOf(newTotal) ==
    IF newTotal > 15 THEN "Citadel"
    ELSE IF newTotal > 8 THEN "Settlement"
    ELSE IF newTotal > 4 THEN "Colony"
    ELSE "Outpost"

\* NextGoalOf with the last threshold written >= 12.
NextGoalOfOffByOne(currentGoal, newTotal) ==
    IF newTotal >= 12 THEN GOAL_SEQUENCE[4]
    ELSE IF newTotal > 7 THEN GOAL_SEQUENCE[3]
    ELSE IF newTotal > 3 THEN GOAL_SEQUENCE[2]
    ELSE currentGoal

NextGoalOf(currentGoal, newTotal) ==
    IF newTotal > 12 THEN GOAL_SEQUENCE[4]
    ELSE IF newTotal > 7 THEN GOAL_SEQUENCE[3]
    ELSE IF newTotal > 3 THEN GOAL_SEQUENCE[2]
    ELSE currentGoal

ComplexityLevelOf(newTotal) == (newTotal \div 4) + 1

\* prev.activePlan || decision.plan: the active plan is kept over a new one.
PlanInEffectKeepsActive(decisionPlan, activePlan) ==
    IF IsDefined(activePlan) THEN activePlan ELSE decisionPlan

\* decision.plan || prev.activePlan
PlanInEffect(decisionPlan, activePlan) ==
    IF IsDefined(decisionPlan) THEN decisionPlan ELSE activePlan

\* AdvancePlan without line 115: the step the cursor arrives at keeps the
\* status it had.
AdvancePlanWithoutActive(plan, cameWithDecision) ==
    LET completed == [plan.steps EXCEPT ![plan.currentStepIndex + 1].status = "completed"]
        nextIdx == plan.currentStepIndex + (IF cameWithDecision THEN 0 ELSE 1)
    IN  IF nextIdx < Len(completed)
        THEN << [plan EXCEPT !.steps = completed, !.currentStepIndex = nextIdx] >>
        ELSE Undefined

\* Lines 110-120: the step at the cursor becomes 'completed'; the cursor moves
\* on by one unless the plan came with this decision; the step it arrives at
\* becomes 'active', and a cursor past the last step clears the plan.
AdvancePlan(plan, cameWithDecision) ==
    LET completed == [plan.steps EXCEPT ![plan.currentStepIndex + 1].status = "completed"]
        nextIdx == plan.currentStepIndex + (IF cameWithDecision THEN 0 ELSE 1)
    IN  IF nextIdx < Len(completed)
        THEN << [plan EXCEPT !.steps = [completed EXCEPT ![nextIdx + 1].status = "active"],
                             !.currentStepIndex = nextIdx] >>
        ELSE Undefined

\* steps[currentStepIndex].status = ... throws a TypeError inside the updater
\* when the cursor points at no step.
PlaceUpdaterThrows(prev, decision) ==
    LET updatedPlan == PlanInEffect(decision.plan, prev.activePlan)
    IN  IsDefined(updatedPlan) /\ ~StepDefined(updatedPlan[1])

\* AddKnowledge that looks for the note among the descriptions, not for the
\* title among the titles.
AddKnowledgeByDescription(knowledgeBase, decision, iteration) ==
    LET title == DeriveTitle(decision.learningNote)
    IN  IF \E i \in 1..Len(knowledgeBase) :
              knowledgeBase[i].description = decision.learningNote
        THEN knowledgeBase
        ELSE Append(knowledgeBase,
                    [ title |-> title,
                      description |-> decision.learningNote,
                      category |-> decision.knowledgeCategory,
                      iteration |-> iteration,
                      isHighlight |-> TRUE ])

AddKnowledge(knowledgeBase, decision, iteration) ==
    LET title == DeriveTitle(decision.learningNote)
    IN  IF \E i \in 1..Len(knowledgeBase) : knowledgeBase[i].title = title
        THEN knowledgeBase
        ELSE Append(knowledgeBase,
                    [ title |-> title,
                      description |-> decision.learningNote,
                      category |-> decision.knowledgeCategory,
                      iteration |-> iteration,
                      isHighlight |-> TRUE ])

\* PlaceUpdater that gives up when the mode is Manual by then: the result of
\* an invocation is dropped once Auto is switched off.
PlaceUpdaterCancelledInManual(prev, decision, newObj) ==
    LET updatedPlan == PlanInEffect(decision.plan, prev.activePlan)
        newTotal == Len(prev.objects) + 1
    IN  IF ~isAuto THEN prev
        ELSE [prev EXCEPT
                !.objects = Append(@, newObj),
                !.currentGoal = NextGoalOf(@, newTotal),
                !.learningIteration = @ + 1,
                !.activePlan = IF IsDefined(updatedPlan)
                               THEN AdvancePlan(updatedPlan[1], IsDefined(decision.plan))
                               ELSE Undefined,
                !.knowledgeBase = AddKnowledge(@, decision, prev.learningIteration),
                !.progression = [@ EXCEPT !.totalBlocks = newTotal,
                                          !.settlementTier = SettlementTierOf(newTotal),
                                          !.complexityLevel = ComplexityLevelOf(newTotal)]]

\* PlaceUpdater that leaves learningIteration as it was.
PlaceUpdaterKeepsIteration(prev, decision, newObj) ==
    LET updatedPlan == PlanInEffect(decision.plan, prev.activePlan)
        newTotal == Len(prev.objects) + 1
    IN  [prev EXCEPT
            !.objects = Append(@, newObj),
            !.currentGoal = NextGoalOf(@, newTotal),
            !.activePlan = IF IsDefined(updatedPlan)
                           THEN AdvancePlan(updatedPlan[1], IsDefined(decision.plan))
                           ELSE Undefined,
            !.knowledgeBase = AddKnowledge(@, decision, prev.learningIteration),
            !.progression = [@ EXCEPT !.totalBlocks = newTotal,
                                      !.settlementTier = SettlementTierOf(newTotal),
                                      !.complexityLevel = ComplexityLevelOf(newTotal)]]

\* PlaceUpdater that stores the new object in place of the list.
PlaceUpdaterReplacesObjects(prev, decision, newObj) ==
    [prev EXCEPT !.objects = << newObj >>,
                 !.learningIteration = @ + 1,
                 !.progression = [@ EXCEPT !.totalBlocks = Len(prev.objects) + 1]]

\* The updater of lines 108-163, for a prev on which it does not throw.
PlaceUpdater(prev, decision, newObj) ==
    LET updatedPlan == PlanInEffect(decision.plan, prev.activePlan)
        newTotal == Len(prev.objects) + 1
    IN  [prev EXCEPT
            !.objects = Append(@, newObj),
            !.currentGoal = NextGoalOf(@, newTotal),
            !.learningIteration = @ + 1,
            !.activePlan = IF IsDefined(updatedPlan)
                           THEN AdvancePlan(updatedPlan[1], IsDefined(decision.plan))
                           ELSE Undefined,
            !.knowledgeBase = AddKnowledge(@, decision, prev.learningIteration),
            !.progression = [@ EXCEPT !.totalBlocks = newTotal,
                                      !.settlementTier = SettlementTierOf(newTotal),
                                      !.complexityLevel = ComplexityLevelOf(newTotal)]]

\* Lines 87-91, with the plan the callback captured (state.activePlan).
TargetThrows(decision, capturedPlan) ==
    LET nextPlan == PlanInEffect(decision.plan, capturedPlan)
    IN  /\ IsDefined(nextPlan)
        /\ decision.objectType = "" \/ ~IsDefined(decision.position)
        /\ ~StepDefined(nextPlan[1])

TargetType(decision, capturedPlan) ==
    LET nextPlan == PlanInEffect(decision.plan, capturedPlan)
    IN  IF decision.objectType # "" THEN decision.objectType
        ELSE IF IsDefined(nextPlan) THEN CurrentStep(nextPlan[1]).type
        ELSE "modular_unit"

\* SnapToTerrain without the snap: the raw vertical coordinate is kept.
SnapToTerrainKeepsRawY(pos) == pos

SnapToTerrain(pos) == << pos[1], getTerrainHeight(pos[1], pos[3]), pos[3] >>

\* TargetPos that does not read the decision's position.
TargetPosWithoutDecision(decision, capturedPlan) ==
    LET nextPlan == PlanInEffect(decision.plan, capturedPlan)
        raw == IF IsDefined(nextPlan) /\ StepDefined(nextPlan[1])
               THEN CurrentStep(nextPlan[1]).position
               ELSE <<0, 0, 0>>
    IN  SnapToTerrain(raw)

TargetPos(decision, capturedPlan) ==
    LET nextPlan == PlanInEffect(decision.plan, capturedPlan)
        raw == IF IsDefined(decision.position) THEN decision.position
               ELSE IF IsDefined(nextPlan) THEN CurrentStep(nextPlan[1]).position
               ELSE <<0, 0, 0>>
    IN  SnapToTerrain(raw)

\* ReasoningStep that walks the steps from the last one back.
ReasoningStepBackwards(steps, done) == steps[Len(steps) - done]

\* The step the loop of lines 77-80 takes up after done of them.
ReasoningStep(steps, done) == steps[done + 1]

NewObject(type, position) ==
    [type |-> type, position |-> position, rotation |-> <<0, 0, 0>>, scale |-> <<1, 1, 1>>]

\* IdleStatus that restores the network status and leaves isScanning set.
IdleStatusKeepsScanning(s) == [s EXCEPT !.networkStatus = "uplink_active"]

\* IdleStatus that writes back the panels and the log of the first render
\* in place of prev's: an update computed from a stale snapshot.
IdleStatusFromSnapshot(s) ==
    [s EXCEPT !.networkStatus = "uplink_active",
              !.isScanning = FALSE,
              !.ui = [showStats |-> TRUE, showKnowledge |-> TRUE, showLogs |-> TRUE,
                      showPlanning |-> TRUE],
              !.logs = SubSeq(@, 1, 1)]

\* The finally block's setState updater.
IdleStatus(s) == [s EXCEPT !.networkStatus = "uplink_active", !.isScanning = FALSE]

IdleLabel(auto) == IF auto THEN "Streaming Neural Data..." ELSE "Manual Standby"

-----------------------------------------------------------------------------
(* The component's state and what a render captures.                       *)

InitialState ==
    [ objects |-> << >>,
      logs |-> << [type |-> "success", message |-> << "Uplink established via ", PROXY_URL >>] >>,
      knowledgeBase |-> << >>,
      currentGoal |-> GOAL_SEQUENCE[1],
      learningIteration |-> 0,
      networkStatus |-> "uplink_active",
      activePlan |-> Undefined,
      isScanning |-> FALSE,
      progression |-> [ complexityLevel |-> 1,
                        structuresCompleted |-> 0,
                        totalBlocks |-> 0,
                        unlockedBlueprints |-> << "Geothermal Core", "Neural Scaling" >>,
                        settlementTier |-> "Outpost" ],
      ui |-> [showStats |-> TRUE, showKnowledge |-> TRUE, showLogs |-> TRUE, showPlanning |-> TRUE] ]

\* What runSimulationStep and triggerScan read of what they close over (the
\* useCallback dependencies isProcessing, state, isAuto, avatarPos): of
\* state, the plan of line 87.  The rest of state goes into the prompt, and
\* the answer is any of the outcomes whatever the prompt.
Closure(s, pos, processing, auto) ==
    [activePlan |-> s.activePlan, avatarPos |-> pos, isProcessing |-> processing,
     isAuto |-> auto]

Slots == 1..MaxInFlight

IdleTick ==
    [ pc |-> "idle", closure |-> Undefined, llm |-> "", settled |-> "", decision |-> Undefined,
      stepIdx |-> 0, targetType |-> "", targetPos |-> Undefined, logged |-> 0 ]

InFlight(t) == ticks[t].pc # "idle"

InFlightCount == Cardinality({t \in Slots : InFlight(t)})

Init ==
    /\ state = InitialState
    /\ avatarPos = <<0, 0, 0>>
    /\ isProcessing = FALSE
    /\ isAuto = TRUE
    /\ currentTask = "Standby for Neural Input..."
    /\ taskProgress = 0
    /\ rendered = Closure(InitialState, <<0, 0, 0>>, FALSE, TRUE)
    /\ renderPending = FALSE
    /\ timer = TRUE
    /\ root = "mounted"
    /\ ticks = [t \in Slots |-> IdleTick]
    /\ started = 0

\* CommitRender whose effect sets the timer whatever the mode: the test of
\* line 187 without isAuto.
CommitRenderTimerInAnyMode(c) ==
    IF root = "failing"
    THEN /\ root' = "unmounted"
         /\ timer' = FALSE
         /\ renderPending' = FALSE
         /\ UNCHANGED rendered
    ELSE /\ rendered' = c
         /\ timer' = ~c.isProcessing
         /\ renderPending' = FALSE
         /\ UNCHANGED root

\* A commit: the callbacks now close over c, and the auto-mode effect
\* (lines 186-191) clears its timer and sets a new one when isAuto holds and
\* isProcessing does not.  With an updater queued that throws, rendering
\* fails and React unmounts the component (App renders no error boundary).
CommitRender(c) ==
    IF root = "failing"
    THEN /\ root' = "unmounted"
         /\ timer' = FALSE
         /\ renderPending' = FALSE
         /\ UNCHANGED rendered
    ELSE /\ rendered' = c
         /\ timer' = (c.isAuto /\ ~c.isProcessing)
         /\ renderPending' = FALSE
         /\ UNCHANGED root

\* Updates queued outside an event handler are rendered in a later task.
Render ==
    /\ root # "unmounted"
    /\ renderPending
    /\ CommitRender(Closure(state, avatarPos, isProcessing, isAuto))
    /\ UNCHANGED <<state, avatarPos, isProcessing, isAuto, currentTask, taskProgress, ticks, started>>

-----------------------------------------------------------------------------
(* runSimulationStep, one action per stretch between two awaits.           *)

\* Lines 56-71 with the callback's captured values c: the guard, the three
\* setters, and the call of decideNextAction up to the remote call.
StartTick(c) ==
    /\ ~c.isProcessing
    /\ \E t \in Slots :
        /\ ~InFlight(t)
        /\ \A u \in Slots : u < t => InFlight(u)
        /\ ticks' = [ticks EXCEPT ![t] = [IdleTick EXCEPT !.pc = "awaitDecision",
                                                           !.closure = <<c>>]]
    /\ isProcessing' = TRUE
    /\ state' = [state EXCEPT !.networkStatus = "syncing", !.isScanning = TRUE]
    /\ taskProgress' = 10
    /\ started' = started + 1
    /\ UNCHANGED <<avatarPos, isAuto, currentTask>>

\* The finally block (lines 171-176) after the state s the try or catch
\* block has produced; the invocation is over.
Finally(t, s) ==
    /\ isProcessing' = FALSE
    /\ taskProgress' = 0
    /\ state' = IdleStatus(s)
    /\ currentTask' = IdleLabel(ticks[t].closure[1].isAuto)
    /\ ticks' = [ticks EXCEPT ![t] = IdleTick]
    /\ renderPending' = TRUE
    /\ UNCHANGED <<isAuto, rendered, timer, started>>

\* The catch block (line 170), then finally.
Catch(t, s) ==
    /\ Finally(t, AddLog(s, << "Neural link timeout. Retrying connectivity..." >>, "error"))
    /\ UNCHANGED <<avatarPos, root>>

\* Lines 83-168 for the invocation in slot t, whose record with the decision
\* filled in is tk: up to the 800 ms await for PLACE, to the end otherwise.
ApplyDecision(t, tk) ==
    LET d == tk.decision[1]
        c == tk.closure[1]
    IN  CASE d.action = "PLACE" ->
                IF TargetThrows(d, c.activePlan)
                THEN Catch(t, state)
                ELSE LET targetType == TargetType(d, c.activePlan)
                         targetPos == TargetPos(d, c.activePlan)
                     IN  /\ state' = AddLog(state, << "DATA_SYNTH_DEPLOY: ", targetType,
                                                      " via Proxy Node" >>, "success")
                         /\ avatarPos' = targetPos
                         /\ currentTask' = d.taskLabel
                         /\ taskProgress' = 60
                         /\ ticks' = [ticks EXCEPT ![t] = [tk EXCEPT !.pc = "deploying",
                                                                     !.targetType = targetType,
                                                                     !.targetPos = targetPos,
                                                                     !.logged = @ + 1]]
                         /\ renderPending' = TRUE
                         /\ UNCHANGED <<isProcessing, isAuto, rendered, timer, root, started>>
          [] d.action = "MOVE" ->
                /\ \E jitter \in JitterOffsets :
                     LET movePos == IF IsDefined(d.position) THEN d.position
                                    ELSE << c.avatarPos[1] + jitter[1], 0,
                                            c.avatarPos[3] + jitter[2] >>
                     IN  avatarPos' = SnapToTerrain(movePos)
                /\ Finally(t, AddLog(state, << "RECALIBRATING_SECTOR: Querying for new coordinates." >>,
                                    "action"))
                /\ UNCHANGED root
          [] OTHER ->
                /\ Finally(t, state)
                /\ UNCHANGED <<avatarPos, root>>

\* The remote call settles and decideNextAction returns (aiLogic.ts,
\* lines 93-152).  Nothing of the component changes yet: runSimulationStep
\* resumes in a microtask of its own.
RemoteCallSettles(t, outcomes) ==
    /\ root # "unmounted"
    /\ ticks[t].pc = "awaitDecision"
    /\ \E outcome \in outcomes :
        LET result == decideNextAction(outcome)
        IN  ticks' = [ticks EXCEPT ![t] =
                        [@ EXCEPT !.pc = "settled",
                                  !.llm = outcome.kind,
                                  !.settled = result.settled,
                                  !.decision = IF result.settled = "resolved"
                                               THEN <<result.value>> ELSE Undefined]]
    /\ UNCHANGED <<state, avatarPos, isProcessing, isAuto, currentTask, taskProgress,
                   rendered, renderPending, timer, root, started>>

\* The same with the Mistral-based revision as the service.
MistralCallSettles(t, outcomes) ==
    /\ root # "unmounted"
    /\ ticks[t].pc = "awaitDecision"
    /\ \E outcome \in outcomes :
        \E result \in decideNextActionMistral(outcome) :
            ticks' = [ticks EXCEPT ![t] =
                        [@ EXCEPT !.pc = "settled",
                                  !.llm = outcome.kind,
                                  !.settled = result.settled,
                                  !.decision = <<result.value>>]]
    /\ UNCHANGED <<state, avatarPos, isProcessing, isAuto, currentTask, taskProgress,
                   rendered, renderPending, timer, root, started>>

\* runSimulationStep resumes after await decideNextAction (lines 63-81): a
\* rejection goes to the catch block; otherwise the first reasoning step is
\* logged and the 400 ms await begins, or, without reasoning steps, the
\* decision is applied at once.
DecisionArrives(t) ==
    /\ root # "unmounted"
    /\ ticks[t].pc = "settled"
    /\ IF ticks[t].settled = "rejected"
       THEN Catch(t, state)
       ELSE LET tk == ticks[t]
                steps == tk.decision[1].reasoningSteps
            IN  IF steps # << >>
                THEN /\ state' = AddLog(state, << "[SYNAPSE]: ", ReasoningStep(steps, 0) >>, "thinking")
                     /\ taskProgress' = 30
                     /\ ticks' = [ticks EXCEPT ![t] = [tk EXCEPT !.pc = "reasoning",
                                                                 !.stepIdx = 1,
                                                                 !.logged = @ + 1]]
                     /\ renderPending' = TRUE
                     /\ UNCHANGED <<avatarPos, isProcessing, isAuto, currentTask,
                                    rendered, timer, root, started>>
                ELSE ApplyDecision(t, tk)

\* A 400 ms await ends (lines 77-81): the next reasoning step is logged, or
\* after the last one the decision is applied.
ReasoningDelayEnds(t) ==
    /\ root # "unmounted"
    /\ ticks[t].pc = "reasoning"
    /\ LET tk == ticks[t]
           steps == tk.decision[1].reasoningSteps
       IN  IF tk.stepIdx < Len(steps)
           THEN /\ state' = AddLog(state, << "[SYNAPSE]: ", ReasoningStep(steps, tk.stepIdx) >>,
                                    "thinking")
                /\ ticks' = [ticks EXCEPT ![t].stepIdx = @ + 1, ![t].logged = @ + 1]
                /\ renderPending' = TRUE
                /\ UNCHANGED <<avatarPos, isProcessing, isAuto, currentTask, taskProgress,
                               rendered, timer, root, started>>
           ELSE ApplyDecision(t, tk)

\* The 800 ms await ends (lines 97-163, then finally): the object is built
\* and the updater is queued.  An updater that throws does so when React
\* runs it, in the render that follows.
DeployDelayEnds(t) ==
    /\ root # "unmounted"
    /\ ticks[t].pc = "deploying"
    /\ LET tk == ticks[t]
           d == tk.decision[1]
       IN  IF PlaceUpdaterThrows(state, d)
           THEN /\ Finally(t, state)
                /\ root' = "failing"
                /\ UNCHANGED avatarPos
           ELSE /\ Finally(t, PlaceUpdater(state, d, NewObject(tk.targetType, tk.targetPos)))
                /\ UNCHANGED <<avatarPos, root>>

-----------------------------------------------------------------------------
(* What starts an invocation, and the other event handlers.                *)

\* setTimeout(runSimulationStep, 4500) fires with the callback of the render
\* whose effect set it.  The setters run outside an event handler, so the
\* render they ask for comes later.
TimerFire(room) ==
    /\ root # "unmounted"
    /\ timer
    /\ room
    /\ StartTick(rendered)
    /\ timer' = FALSE
    /\ renderPending' = TRUE
    /\ UNCHANGED <<rendered, root>>

\* Sync_Directive: onClick={runSimulationStep} disabled={isProcessing}, both
\* as of the last render.  A click handler's updates are rendered before the
\* next event is handled.
SyncDirective(room) ==
    /\ root # "unmounted"
    /\ ~rendered.isProcessing
    /\ room
    /\ StartTick(rendered)
    /\ CommitRender(Closure(state', avatarPos, TRUE, isAuto))

\* Grid_Ping: onClick={triggerScan}, in the stats panel.
GridPing(room) ==
    /\ root # "unmounted"
    /\ state.ui.showStats
    /\ ~rendered.isProcessing
    /\ room
    /\ StartTick(rendered)
    /\ CommitRender(Closure(state', avatarPos, TRUE, isAuto))

\* The Auto and Manual buttons (lines 350-351).
SetIsAuto(auto) ==
    /\ root # "unmounted"
    /\ isAuto # auto
    /\ isAuto' = auto
    /\ CommitRender(Closure(state, avatarPos, isProcessing, auto))
    /\ UNCHANGED <<state, avatarPos, isProcessing, currentTask, taskProgress, ticks, started>>

\* The panel buttons (line 237).
Panels == {"showStats", "showKnowledge", "showPlanning", "showLogs"}

TogglePanel(k) ==
    /\ root # "unmounted"
    /\ state' = [state EXCEPT !.ui[k] = ~@]
    /\ CommitRender(Closure(state', avatarPos, isProcessing, isAuto))
    /\ UNCHANGED <<avatarPos, isProcessing, isAuto, currentTask, taskProgress, ticks, started>>

-----------------------------------------------------------------------------
(* Specifications *)

\* Panels toggled in Spec.
ToggledPanels == {"showStats"}

\* No invocation starts once n of them have.
TickRoom(n) == started < n

Next ==
    \/ TimerFire(TickRoom(MaxTicks))
    \/ GridPing(TickRoom(MaxTicks))
    \/ SyncDirective(TickRoom(MaxTicks))
    \/ \E auto \in BOOLEAN : SetIsAuto(auto)
    \/ \E k \in ToggledPanels : TogglePanel(k)
    \/ Render
    \/ \E t \in Slots : RemoteCallSettles(t, LLMOutcomes)
    \/ \E t \in Slots : DecisionArrives(t)
    \/ \E t \in Slots : ReasoningDelayEnds(t)
    \/ \E t \in Slots : DeployDelayEnds(t)

Spec == Init /\ [][Next]_vars


\* The invocation in slot t goes on from where it waits.
TickStep(t) ==
    \/ RemoteCallSettles(t, LLMOutcomes)
    \/ DecisionArrives(t)
    \/ ReasoningDelayEnds(t)
    \/ DeployDelayEnds(t)

\* Every await of an invocation ends: the remote call settles and the
\* setTimeout delays run out.
TickFairness == \A t \in Slots : WF_vars(TickStep(t))

FairSpec == Spec /\ TickFairness

\* The building specification: the mode and the panels left alone, the
\* service answering every call with a PLACE, BuildTicks invocations.
BuildTicks == MaxTicks + 1

BuildNext ==
    \/ TimerFire(TickRoom(BuildTicks))
    \/ GridPing(TickRoom(BuildTicks))
    \/ SyncDirective(TickRoom(BuildTicks))
    \/ Render
    \/ \E t \in Slots : RemoteCallSettles(t, Answers(PlaceResponses))
    \/ \E t \in Slots : DecisionArrives(t)
    \/ \E t \in Slots : ReasoningDelayEnds(t)
    \/ \E t \in Slots : DeployDelayEnds(t)

BuildSpec == Init /\ [][BuildNext]_vars

\* The unattended specification: Auto mode and no user input.  The timer
\* alone starts invocations, BuildTicks of them; the service answers with
\* any outcome.  The timer fires when armed, a queued update is rendered, and
\* every await of an invocation ends.
AutoNext ==
    \/ TimerFire(TickRoom(BuildTicks))
    \/ Render
    \/ \E t \in Slots : RemoteCallSettles(t, LLMOutcomes)
    \/ \E t \in Slots : DecisionArrives(t)
    \/ \E t \in Slots : ReasoningDelayEnds(t)
    \/ \E t \in Slots : DeployDelayEnds(t)

AutoFairness ==
    /\ WF_vars(TimerFire(TickRoom(BuildTicks)))
    /\ WF_vars(Render)
    /\ TickFairness

AutoSpec == Init /\ [][AutoNext]_vars /\ AutoFairness

\* The loop with the Mistral-based revision as its service.
MistralNext ==
    \/ TimerFire(TickRoom(MaxTicks))
    \/ GridPing(TickRoom(MaxTicks))
    \/ SyncDirective(TickRoom(MaxTicks))
    \/ Render
    \/ \E t \in Slots : MistralCallSettles(t, MistralOutcomes)
    \/ \E t \in Slots : DecisionArrives(t)
    \/ \E t \in Slots : ReasoningDelayEnds(t)
    \/ \E t \in Slots : DeployDelayEnds(t)

MistralSpec == Init /\ [][MistralNext]_vars

\* The narrated specification: every answer of the service has two
\* reasoning steps, and a failed call gets the fallback with its three.
ReasonedResponses ==
    { Response("PLACE", "modular_unit", <<2000, 0, 3000>>, Undefined, NoteEnergyA,
               << "Checking terrain slope", "Aligning to grid" >>),
      Response("MOVE", "", Undefined, Undefined, NoteNoColon,
               << "Checking terrain slope", "Aligning to grid" >>),
      Response("WAIT", "", Undefined, Undefined, NoteNoColon,
               << "Checking terrain slope", "Aligning to grid" >>) }

ReasonNext ==
    \/ TimerFire(TickRoom(MaxTicks))
    \/ GridPing(TickRoom(MaxTicks))
    \/ SyncDirective(TickRoom(MaxTicks))
    \/ Render
    \/ \E t \in Slots : RemoteCallSettles(t, Answers(ReasonedResponses) \cup Failures)
    \/ \E t \in Slots : DecisionArrives(t)
    \/ \E t \in Slots : ReasoningDelayEnds(t)
    \/ \E t \in Slots : DeployDelayEnds(t)

ReasonSpec == Init /\ [][ReasonNext]_vars

\* The progression specification: the timer alone starting invocations, the
\* service answering every call with a PLACE, until ProgMaxObjects objects
\* stand.  While fewer than ProgVaried objects stand the service answers with
\* any of three placements (a type and a position, neither, a new plan),
\* afterwards with the first.
ProgResponses ==
    IF Len(state.objects) < ProgVaried
    THEN { Response("PLACE", "modular_unit", <<2000, 0, 3000>>, Undefined, NoteEnergyA, << >>),
           Response("PLACE", "", Undefined, Undefined, NoteEnergyB, << "Checking terrain slope" >>),
           Response("PLACE", "", Undefined, <<PlanTwoSteps>>, NoteNoColon, << >>) }
    ELSE { Response("PLACE", "modular_unit", <<2000, 0, 3000>>, Undefined, NoteEnergyA, << >>) }

ObjectRoom == Len(state.objects) + InFlightCount < ProgMaxObjects

ProgNext ==
    \/ TimerFire(ObjectRoom)
    \/ Render
    \/ \E t \in Slots : RemoteCallSettles(t, Answers(ProgResponses))
    \/ \E t \in Slots : DecisionArrives(t)
    \/ \E t \in Slots : ReasoningDelayEnds(t)
    \/ \E t \in Slots : DeployDelayEnds(t)

ProgSpec == Init /\ [][ProgNext]_vars

\* The goal specification: the timer alone starting invocations, the
\* service answering with one placement, a MOVE or a WAIT, until
\* ProgMaxObjects objects stand; at most GoalIdleTicks invocations place
\* nothing.
GoalResponses ==
    { Response("PLACE", "modular_unit", <<2000, 0, 3000>>, Undefined, NoteEnergyA, << >>),
      Response("MOVE", "", <<2000, 0, 3000>>, Undefined, NoteNoColon, << >>),
      Response("WAIT", "", Undefined, Undefined, NoteNoColon, << >>) }

GoalRoom ==
    /\ Len(state.objects) + InFlightCount < ProgMaxObjects
    /\ started - Len(state.objects) < GoalIdleTicks + 1

GoalNext ==
    \/ TimerFire(GoalRoom)
    \/ Render
    \/ \E t \in Slots : RemoteCallSettles(t, Answers(GoalResponses))
    \/ \E t \in Slots : DecisionArrives(t)
    \/ \E t \in Slots : DeployDelayEnds(t)

GoalSpec == Init /\ [][GoalNext]_vars

\* The plan specification: one plan followed from its introduction to its
\* end.  The timer alone starts invocations.  In the empty world the service
\* answers with a PLACE that introduces a plan (valid cursor, all steps
\* pending) and names neither type nor position; while the plan the prompt
\* shows (the captured one) is active it answers with a PLACE that names
\* neither and carries no plan.  No invocation starts once the plan is
\* cleared.
PlanThreeFromSecond ==
    [ planId |-> "plan-three",
      steps |-> << PlanStep("Foundation", "modular_unit", <<0, 0, 0>>),
                   PlanStep("Collector", "water_collector", <<2000, 0, 3000>>),
                   PlanStep("Spire", "tree", <<5000, 0, -2000>>) >>,
      currentStepIndex |-> 1 ]

PlanOneStep ==
    [ planId |-> "plan-one",
      steps |-> << PlanStep("Beacon", "well", <<-5000, 0, 5000>>) >>,
      currentStepIndex |-> 0 ]

FollowedPlans == { PlanOneStep, PlanTwoSteps, PlanThreeFromSecond }

PlanResponses(captured) ==
    IF IsDefined(captured) /\ IsDefined(captured[1].activePlan)
    THEN { Response("PLACE", "", Undefined, Undefined, NoteEnergyB, << >>) }
    ELSE { Response("PLACE", "", Undefined, <<plan>>, NoteEnergyA, << >>) : plan \in FollowedPlans }

PlanRoom ==
    /\ state.objects = << >> \/ IsDefined(state.activePlan)
    /\ started < PlanTicks

PlanNext ==
    \/ TimerFire(PlanRoom)
    \/ Render
    \/ \E k \in ToggledPanels : TogglePanel(k)
    \/ \E t \in Slots : RemoteCallSettles(t, Answers(PlanResponses(ticks[t].closure)))
    \/ \E t \in Slots : DecisionArrives(t)
    \/ \E t \in Slots : DeployDelayEnds(t)

PlanSpec == Init /\ [][PlanNext]_vars

-----------------------------------------------------------------------------
(* Properties *)

IsPrefix(a, b) == Len(a) <= Len(b) /\ SubSeq(b, 1, Len(a)) = a

Last(seq) == seq[Len(seq)]

\* The invocation in slot t ends in this step.
Ends(t) == InFlight(t) /\ ticks'[t].pc = "idle"

\* C1: single-flight. At most one invocation of runSimulationStep is in
\* flight in every reachable state, whichever callback triggered it.
C1_SingleFlight == InFlightCount <= 1

\* C2: terrain snap. Every stored object's vertical coordinate is
\* getTerrainHeight of its own horizontal coordinates.
C2_TerrainSnap ==
    \A i \in 1..Len(state.objects) :
        state.objects[i].position[2] =
            getTerrainHeight(state.objects[i].position[1], state.objects[i].position[3])

\* Objects placed from a decision's position, from a plan's step and from the
\* default [0,0,0] stand together.
C2_Witness ==
    /\ \E i \in 1..Len(state.objects) : state.objects[i].position[1] = 2000
    /\ \E i \in 1..Len(state.objects) : state.objects[i].position[1] = 4000
    /\ \E i \in 1..Len(state.objects) : state.objects[i].position[1] = 0

\* C3: decideNextAction never rejects because of the remote call. Whenever
\* the call failed (transport or parsing), the promise is resolved, with the
\* WAIT action and the one fixed reason.
C3_FailureBecomesWait ==
    \A t \in Slots :
        (ticks[t].pc = "settled" /\ ticks[t].llm \in {"transport_error", "parse_error"})
            => /\ ticks[t].settled = "resolved"
               /\ ticks[t].decision[1].action = "WAIT"
               /\ ticks[t].decision[1].reason =
                      "Neural buffer overflow. Recalibrating spatial constraints."

\* A call that failed in transport has settled while one whose text did not
\* parse is being applied as the fallback.
C3_Witness ==
    /\ \E t \in Slots : ticks[t].pc = "settled" /\ ticks[t].llm = "transport_error"
    /\ \E t \in Slots : /\ ticks[t].pc = "reasoning"
                         /\ ticks[t].llm = "parse_error"
                         /\ ticks[t].decision[1].action = "WAIT"

\* The invocation in slot t takes this step.
Steps(t) == ticks'[t] # ticks[t]

\* The entries the log gains in this step.
Appended == SubSeq(state'.logs, Len(state.logs) + 1, Len(state'.logs))

\* C4: fallback scenario. An invocation whose remote call failed in transport
\* has, when it ends, appended exactly one entry to the log, that entry
\* reporting the WAIT with its reason, and none of its steps changes the
\* objects.
C4_FallbackOneWaitEntry ==
    [][\A t \in Slots :
          /\ (Steps(t) /\ ticks[t].llm = "transport_error")
                => state'.objects = state.objects
          /\ (Ends(t) /\ ticks[t].llm = "transport_error")
                => /\ ticks[t].logged + Len(Appended) = 1
                   /\ \E i \in 1..Len(Last(state'.logs).message) :
                          Last(state'.logs).message[i] = ticks[t].decision[1].reason
      ]_vars

Idle ==
    /\ isProcessing = FALSE
    /\ taskProgress = 0
    /\ state.networkStatus = "uplink_active"
    /\ state.isScanning = FALSE
    /\ currentTask \in {"Streaming Neural Data...", "Manual Standby"}

C6_KnowledgeDedup ==
    /\ [](\A i, j \in 1..Len(state.knowledgeBase) :
            i # j => state.knowledgeBase[i].title # state.knowledgeBase[j].title)
    /\ [][\A t \in Slots :
            (/\ Ends(t)
             /\ ticks[t].pc = "deploying"
             /\ \E i \in 1..Len(state.knowledgeBase) :
                    state.knowledgeBase[i].title = DeriveTitle(ticks[t].decision[1].learningNote))
                => state'.knowledgeBase = state.knowledgeBase
         ]_vars

\* Two placements with notes of one title, one knowledge entry.
C6_Witness ==
    /\ Len(state.objects) = 2
    /\ Len(state.knowledgeBase) = 1
    /\ state.knowledgeBase[1].title = << "Energy" >>
    /\ state.knowledgeBase[1].description = NoteEnergyB

\* C7: the settlement tier and the complexity level are functions of
\* totalBlocks, the object count: Outpost up to 4, Colony for 5..8,
\* Settlement for 9..15, Citadel above 15; complexity floor(n/4)+1.
C7_TierByCount ==
    LET n == state.progression.totalBlocks
    IN  /\ n = Len(state.objects)
        /\ n <= 4 => state.progression.settlementTier = "Outpost"
        /\ n \in 5..8 => state.progression.settlementTier = "Colony"
        /\ n \in 9..15 => state.progression.settlementTier = "Settlement"
        /\ n > 15 => state.progression.settlementTier = "Citadel"
        /\ state.progression.complexityLevel = (n \div 4) + 1

\* The Citadel is reached, by placements of more than one type.
C7_Witness ==
    /\ state.progression.settlementTier = "Citadel"
    /\ \E i, j \in 1..Len(state.objects) : state.objects[i].type # state.objects[j].type

\* C8: in the empty world, the PLACE of a modular_unit at raw [2, 0, 3]
\* without a plan ends with exactly that one object at
\* [2, elevation(2,3), 3], totalBlocks 1 and tier Outpost.
C8_EndToEnd ==
    [][\A t \in Slots :
          (/\ Ends(t)
           /\ ticks[t].pc = "deploying"
           /\ state.objects = << >>
           /\ InFlightCount = 1
           /\ ticks[t].decision[1].objectType = "modular_unit"
           /\ ticks[t].decision[1].position = <<2000, 0, 3000>>
           /\ ticks[t].decision[1].plan = Undefined)
              => /\ Len(state'.objects) = 1
                 /\ state'.objects[1].type = "modular_unit"
                 /\ state'.objects[1].position = <<2000, getTerrainHeight(2000, 3000), 3000>>
                 /\ state'.progression.totalBlocks = 1
                 /\ state'.progression.settlementTier = "Outpost"
      ]_vars

C8_Witness ==
    /\ InFlightCount = 0
    /\ Len(state.objects) = 1
    /\ state.objects[1].type = "modular_unit"
    /\ state.objects[1].position[1] = 2000
    /\ state.objects[1].position[2] # 0
    /\ Len(state.knowledgeBase) = 1
    /\ state.knowledgeBase[1].description = NoteEnergyA

\* C9: the objects only grow. Every step keeps the stored objects as a prefix
\* of the new list; a step adds at most one object, and only the step in
\* which a PLACE is committed adds one; a committed PLACE whose updater runs
\* adds exactly one.
C9_ObjectsOnlyGrow ==
    [][/\ IsPrefix(state.objects, state'.objects)
       /\ Len(state'.objects) <= Len(state.objects) + 1
       /\ Len(state'.objects) = Len(state.objects) + 1
            => \E t \in Slots : /\ Ends(t)
                                /\ ticks[t].pc = "deploying"
                                /\ ticks[t].decision[1].action = "PLACE"
       /\ \A t \in Slots :
            (Ends(t) /\ ticks[t].pc = "deploying" /\ ~PlaceUpdaterThrows(state, ticks[t].decision[1]))
                => Len(state'.objects) = Len(state.objects) + 1
      ]_vars

\* Two different objects stand and no invocation is in flight.
C9_Witness ==
    /\ Len(state.objects) = 2
    /\ state.objects[1] # state.objects[2]
    /\ InFlightCount = 0

\* C10: the log is append-only. Every step (of an invocation, a panel
\* toggle, a mode switch, a render) keeps the log as a prefix of the new log.
C10_LogAppendOnly == [][IsPrefix(state.logs, state'.logs)]_vars

C10_Witness ==
    /\ Len(state.logs) >= 5
    /\ ~state.ui.showStats
    /\ ~isAuto

\* The place of a tier in the order Outpost, Colony, Settlement, Citadel.
TierRank(tier) ==
    CASE tier = "Outpost" -> 0
      [] tier = "Colony" -> 1
      [] tier = "Settlement" -> 2
      [] tier = "Citadel" -> 3

\* C11: progression never regresses. No step lowers totalBlocks and no step
\* moves the settlement tier back in the order Outpost, Colony, Settlement,
\* Citadel; a step from Citadel stays in Citadel.
C11_NeverRegresses ==
    [][/\ state'.progression.totalBlocks >= state.progression.totalBlocks
       /\ TierRank(state'.progression.settlementTier)
              >= TierRank(state.progression.settlementTier)
       /\ state.progression.settlementTier = "Citadel"
              => state'.progression.settlementTier = "Citadel"
      ]_vars

\* An object has been placed in the Citadel: the count has grown past the
\* last threshold.
C11_Witness ==
    /\ state.progression.settlementTier = "Citadel"
    /\ state.progression.totalBlocks > 16

\* The invocation in slot t commits its PLACE in this step: the 800 ms await
\* ends and the updater runs.
Commits(t) ==
    /\ Ends(t)
    /\ ticks[t].pc = "deploying"
    /\ ~PlaceUpdaterThrows(state, ticks[t].decision[1])

\* C12: plan advance. Every PLACE committed while a plan is in effect (the
\* active plan, or the plan the decision carries) leaves the step at that
\* plan's cursor 'completed' and the cursor one further, on a step that is
\* 'active'; if the step was the last one, the active plan is cleared.
C12_PlanAdvance ==
    [][\A t \in Slots :
          LET inEffect == PlanInEffect(ticks[t].decision[1].plan, state.activePlan)
              plan == inEffect[1]
              cursor == plan.currentStepIndex
          IN  (Commits(t) /\ IsDefined(inEffect))
                 => IF cursor + 1 < Len(plan.steps)
                    THEN /\ IsDefined(state'.activePlan)
                         /\ state'.activePlan[1].currentStepIndex = cursor + 1
                         /\ state'.activePlan[1].steps[cursor + 1].status = "completed"
                         /\ state'.activePlan[1].steps[cursor + 2].status = "active"
                    ELSE state'.activePlan = Undefined
      ]_vars

\* A plan's steps without their status.
StepsOf(plan) ==
    [i \in 1..Len(plan.steps) |->
        [label |-> plan.steps[i].label, type |-> plan.steps[i].type,
         position |-> plan.steps[i].position]]

\* C13: one plan at a time, replaced wholesale. activePlan holds at most one
\* plan. After a committed PLACE whose decision carries a plan, the active
\* plan, if any is left, has the new plan's id and steps, its cursor is the
\* new plan's or one further, and every step beyond the cursor has the
\* status the new plan gave it. After a committed PLACE without a new plan
\* the active plan, if any is left, has the id and steps it had.
C13_PlanReplacedWholesale ==
    /\ [](Len(state.activePlan) <= 1)
    /\ [][\A t \in Slots :
            Commits(t) /\ IsDefined(state'.activePlan)
               => LET d == ticks[t].decision[1]
                      after == state'.activePlan[1]
                  IN  IF IsDefined(d.plan)
                      THEN /\ after.planId = d.plan[1].planId
                           /\ StepsOf(after) = StepsOf(d.plan[1])
                           /\ after.currentStepIndex - d.plan[1].currentStepIndex \in {0, 1}
                           /\ \A i \in (after.currentStepIndex + 2)..Len(after.steps) :
                                  after.steps[i].status = d.plan[1].steps[i].status
                      ELSE /\ IsDefined(state.activePlan)
                           /\ after.planId = state.activePlan[1].planId
                           /\ StepsOf(after) = StepsOf(state.activePlan[1])
         ]_vars

\* A new plan has replaced a plan that was one step on: the first object
\* came from the old plan's first step, the second had a position of its
\* own and moved the old cursor on, the third came from the new plan's first
\* step, and the plan now stands at its first step with the second pending.
C13_Witness ==
    /\ Len(state.objects) = 3
    /\ state.objects[1].position[1] = 4000
    /\ state.objects[2].position[1] = 2000
    /\ state.objects[3].position[1] = 4000
    /\ IsDefined(state.activePlan)
    /\ state.activePlan[1].currentStepIndex = 0
    /\ state.activePlan[1].steps[2].status = "pending"

\* The log entry carries the text: the text is one of its message's fragments.
Carries(entry, text) == \E i \in 1..Len(entry.message) : entry.message[i] = text

\* C14: when an invocation whose decision is WAIT ends, it has appended at
\* least one entry, and the log holds an entry carrying the decision's
\* reason.
C14_WaitLogsReason ==
    [][\A t \in Slots :
          (Ends(t) /\ ticks[t].settled = "resolved" /\ ticks[t].decision[1].action = "WAIT")
             => /\ ticks[t].logged + Len(Appended) >= 1
                /\ \E i \in 1..Len(state'.logs) :
                       Carries(state'.logs[i], ticks[t].decision[1].reason)
      ]_vars

\* The invocation in slot t has a decision with this action.
Decided(t, action) ==
    IsDefined(ticks[t].decision) /\ ticks[t].decision[1].action = action

\* b lies within a draw of the jitter from a.
WithinJitter(a, b) ==
    /\ 2 * (b - a) >= -(JitterSpan * Scale)
    /\ 2 * (b - a) < JitterSpan * Scale

\* C15: a MOVE. The step that ends an invocation whose decision is MOVE sets
\* the avatar to the decision's position, or without one to a jittered
\* offset of the avatar's current position, with the vertical coordinate
\* the terrain's there, and appends exactly one entry, of type 'action';
\* the invocation's other steps append 'thinking' entries only; and none
\* of its steps changes objects, knowledgeBase, activePlan, currentGoal,
\* learningIteration or progression, with or without a plan in the decision.
C15_MoveFrame ==
    [][\A t \in Slots :
          (Steps(t) /\ Decided(t, "MOVE"))
             => /\ state'.objects = state.objects
                /\ state'.knowledgeBase = state.knowledgeBase
                /\ state'.activePlan = state.activePlan
                /\ state'.currentGoal = state.currentGoal
                /\ state'.learningIteration = state.learningIteration
                /\ state'.progression = state.progression
                /\ IF Ends(t)
                   THEN /\ Len(Appended) = 1
                        /\ Appended[1].type = "action"
                        /\ avatarPos'[2] = getTerrainHeight(avatarPos'[1], avatarPos'[3])
                        /\ IF IsDefined(ticks[t].decision[1].position)
                           THEN /\ avatarPos'[1] = ticks[t].decision[1].position[1]
                                /\ avatarPos'[3] = ticks[t].decision[1].position[3]
                           ELSE /\ WithinJitter(avatarPos[1], avatarPos'[1])
                                /\ WithinJitter(avatarPos[3], avatarPos'[3])
                   ELSE \A i \in 1..Len(Appended) : Appended[i].type = "thinking"
      ]_vars

\* Applying the decision of the invocation in slot t raises an exception in
\* this step: reading the step at the cursor (lines 88-89) or, at the
\* commit, writing its status (line 112).
Raises(t) ==
    /\ Steps(t)
    /\ Decided(t, "PLACE")
    /\ \/ /\ ticks[t].pc \in {"settled", "reasoning"}
          /\ ticks'[t].pc # "reasoning"
          /\ TargetThrows(ticks[t].decision[1], ticks[t].closure[1].activePlan)
       \/ /\ ticks[t].pc = "deploying"
          /\ ticks'[t].pc = "idle"
          /\ PlaceUpdaterThrows(state, ticks[t].decision[1])

\* C16: the loop's catch-all. A step in which applying a decision raises an
\* exception appends one entry, of type 'error', ends the invocation, leaves
\* objects, knowledgeBase, activePlan, currentGoal and progression as they
\* were, and the component stays mounted.
C16_CatchAll ==
    [][\A t \in Slots :
          Raises(t)
             => /\ Ends(t)
                /\ Len(Appended) = 1
                /\ Appended[1].type = "error"
                /\ state'.objects = state.objects
                /\ state'.knowledgeBase = state.knowledgeBase
                /\ state'.activePlan = state.activePlan
                /\ state'.currentGoal = state.currentGoal
                /\ state'.progression = state.progression
                /\ root' = "mounted"
      ]_vars

\* C17: no cancellation. A switch of the mode changes no invocation and
\* nothing of state; an invocation in flight can always take its next step,
\* whatever the mode (while the component is mounted); a PLACE committed in
\* Manual mode by an invocation started in Auto mode appends its object and
\* stores the plan the updater computes; and in Manual mode no timer is
\* armed, so no automatic invocation follows.
C17_NoCancellation ==
    /\ [][isAuto' # isAuto => (ticks' = ticks /\ state' = state)]_vars
    /\ [](\A t \in Slots :
            (InFlight(t) /\ root # "unmounted") => ENABLED TickStep(t))
    /\ [][\A t \in Slots :
            (Commits(t) /\ ~isAuto /\ ticks[t].closure[1].isAuto)
               => LET d == ticks[t].decision[1]
                      inEffect == PlanInEffect(d.plan, state.activePlan)
                  IN  /\ state'.objects =
                             Append(state.objects,
                                    NewObject(ticks[t].targetType, ticks[t].targetPos))
                      /\ state'.activePlan =
                             IF IsDefined(inEffect)
                             THEN AdvancePlan(inEffect[1], IsDefined(d.plan))
                             ELSE Undefined
         ]_vars
    /\ [](~isAuto => ~timer)

\* An invocation started in Auto mode has committed a PLACE with a plan
\* after the switch to Manual: the mode is Manual, the last update is the
\* invocation's (not yet rendered, while the switch was), and the label is
\* the one of Auto mode.
C17_Witness ==
    /\ ~isAuto
    /\ renderPending
    /\ InFlightCount = 0
    /\ currentTask = "Streaming Neural Data..."
    /\ Len(state.objects) = 1
    /\ IsDefined(state.activePlan)

\* C18: the loop always continues ticking. In Auto mode without user input,
\* whenever n invocations have started (n below the number the
\* specification stops at), an (n+1)-th eventually starts: the loop is never
\* left in flight for good nor unscheduled for good, whatever the outcome of
\* the invocations before.
C18_AlwaysTicks ==
    \A n \in 0..(BuildTicks - 1) : (started = n) ~> (started > n)

\* The text is a substring of the other: its fragments occur in it in a row.
Contained(text, other) ==
    \E i \in 1..(Len(other) - Len(text) + 1) : SubSeq(other, i, i + Len(text) - 1) = text

\* C19: deduplication by title or by containment. A committed PLACE whose
\* note derives the title of an existing knowledge entry, or whose note is
\* contained in the description of one, adds no entry.
C19_DedupByContainment ==
    [][\A t \in Slots :
          (/\ Commits(t)
           /\ \E i \in 1..Len(state.knowledgeBase) :
                  \/ state.knowledgeBase[i].title =
                         DeriveTitle(ticks[t].decision[1].learningNote)
                  \/ Contained(ticks[t].decision[1].learningNote,
                               state.knowledgeBase[i].description))
             => state'.knowledgeBase = state.knowledgeBase
      ]_vars

\* C20: the Mistral-based revision turns a failed call into a WAIT. Every
\* invocation whose remote call failed (in transport, by empty content or in
\* parsing) has a WAIT decision, and none of its steps adds an object or
\* moves the avatar.
C20_MistralFailureBecomesWait ==
    [][\A t \in Slots :
          (Steps(t) /\ ticks[t].llm \in {"transport_error", "empty", "parse_error"})
             => /\ ticks[t].decision[1].action = "WAIT"
                /\ state'.objects = state.objects
                /\ avatarPos' = avatarPos
      ]_vars

\* The invocation in slot t works out its PLACE target in this step
\* (lines 87-94) and goes on to the 800 ms await.
Targets(t) == ticks[t].pc # "deploying" /\ ticks'[t].pc = "deploying"

\* C21: PLACE defaults. A PLACE without a position is targeted at the
\* horizontal coordinates of the step at the cursor of the plan in effect
\* (the decision's plan, otherwise the active plan), and at [0, 0] when no
\* plan is in effect; a PLACE without a type gets that step's type, or
\* modular_unit when no plan is in effect; and the object committed has the
\* targeted type and position.
C21_PlaceDefaults ==
    [][\A t \in Slots :
          /\ Targets(t)
                => LET d == ticks[t].decision[1]
                       inEffect == PlanInEffect(d.plan, state.activePlan)
                       target == ticks'[t].targetPos
                   IN  /\ (~IsDefined(d.position) /\ ~IsDefined(inEffect))
                              => (target[1] = 0 /\ target[3] = 0)
                       /\ (~IsDefined(d.position) /\ IsDefined(inEffect))
                              => /\ StepDefined(inEffect[1])
                                 /\ target[1] = CurrentStep(inEffect[1]).position[1]
                                 /\ target[3] = CurrentStep(inEffect[1]).position[3]
                       /\ (d.objectType = "" /\ ~IsDefined(inEffect))
                              => ticks'[t].targetType = "modular_unit"
                       /\ (d.objectType = "" /\ IsDefined(inEffect))
                              => /\ StepDefined(inEffect[1])
                                 /\ ticks'[t].targetType = CurrentStep(inEffect[1]).type
          /\ Commits(t)
                => /\ Last(state'.objects).type = ticks[t].targetType
                   /\ Last(state'.objects).position = ticks[t].targetPos
      ]_vars

\* a occurs in b as a subsequence: its elements, in their order, among b's.
RECURSIVE IsSubsequence(_, _)
IsSubsequence(a, b) ==
    IF a = << >> THEN TRUE
    ELSE IF b = << >> THEN FALSE
    ELSE IF Head(a) = Head(b) THEN IsSubsequence(Tail(a), Tail(b))
    ELSE IsSubsequence(a, Tail(b))

\* The 'thinking' entries of the first n reasoning steps of a decision.
ThinkingEntries(decision, n) ==
    [i \in 1..n |-> [type |-> "thinking",
                     message |-> << "[SYNAPSE]: ", decision.reasoningSteps[i] >>]]

\* The invocation in slot t applies its decision in this step: it leaves
\* the reasoning loop (or had nothing to narrate) for lines 83-168.
Applies(t) ==
    /\ ticks[t].pc \in {"settled", "reasoning"}
    /\ ticks[t].settled = "resolved"
    /\ Steps(t)
    /\ ticks'[t].pc # "reasoning"

\* C22: reasoning first. A step of the reasoning loop appends exactly one
\* entry, the 'thinking' entry of the next reasoning step in the order given;
\* when the decision is applied (the deploy or recalibrate entry is
\* appended) and when the object is appended, the invocation has logged one
\* entry per reasoning step and the log already holds them all, in order.
C22_ReasoningFirst ==
    [][\A t \in Slots :
          /\ (Steps(t) /\ ticks'[t].pc = "reasoning")
                => /\ ticks'[t].stepIdx = ticks[t].stepIdx + 1
                   /\ Appended = << ThinkingEntries(ticks'[t].decision[1],
                                                    ticks'[t].stepIdx)[ticks'[t].stepIdx] >>
          /\ Applies(t)
                => LET d == ticks[t].decision[1]
                   IN  /\ ticks[t].logged = Len(d.reasoningSteps)
                       /\ IsSubsequence(ThinkingEntries(d, Len(d.reasoningSteps)), state.logs)
                       /\ \A i \in 1..Len(Appended) : Appended[i].type # "thinking"
          /\ Commits(t)
                => LET d == ticks[t].decision[1]
                   IN  /\ ticks[t].logged = Len(d.reasoningSteps) + 1
                       /\ IsSubsequence(Append(ThinkingEntries(d, Len(d.reasoningSteps)),
                                               [type |-> "success",
                                                message |-> << "DATA_SYNTH_DEPLOY: ",
                                                               ticks[t].targetType,
                                                               " via Proxy Node" >>]),
                                        state.logs)
      ]_vars

\* One invocation has narrated two steps, logged its deployment and
\* placed its object.
C22_Witness ==
    /\ Len(state.objects) = 1
    /\ InFlightCount = 0
    /\ Len(state.logs) = 4
    /\ state.logs[2].message = << "[SYNAPSE]: ", "Checking terrain slope" >>
    /\ state.logs[3].message = << "[SYNAPSE]: ", "Aligning to grid" >>
    /\ state.logs[4].type = "success"

\* The goal the claim gives an object count (GOAL_SEQUENCE[0], [1], [2], [3]
\* are elements 1 to 4 here).
GoalOfCount(n) ==
    IF n <= 3 THEN GOAL_SEQUENCE[1]
    ELSE IF n <= 7 THEN GOAL_SEQUENCE[2]
    ELSE IF n <= 12 THEN GOAL_SEQUENCE[3]
    ELSE GOAL_SEQUENCE[4]

\* The place of a goal in GOAL_SEQUENCE.
GoalRank(goal) == CHOOSE i \in 1..Len(GOAL_SEQUENCE) : GOAL_SEQUENCE[i] = goal

\* C23: the goal by the count. In every state currentGoal is the goal of the
\* object count (the first up to 3 objects, the second for 4..7, the third
\* for 8..12, the fourth above 12); no step takes it back in the sequence;
\* and no step of an invocation whose decision is MOVE or WAIT changes it.
C23_GoalByCount ==
    /\ [](state.currentGoal = GoalOfCount(Len(state.objects)))
    /\ [][GoalRank(state'.currentGoal) >= GoalRank(state.currentGoal)]_vars
    /\ [][\A t \in Slots :
            (Steps(t) /\ (Decided(t, "MOVE") \/ Decided(t, "WAIT")))
               => state'.currentGoal = state.currentGoal
         ]_vars

\* The last goal has been reached and a MOVE has just ended there.
C23_Witness ==
    /\ state.currentGoal = GOAL_SEQUENCE[4]
    /\ Len(state.objects) > 12
    /\ InFlightCount = 0
    /\ Last(state.logs).type = "action"

\* C24: Manual mode is quiet. In Manual mode no timer is armed (the switch
\* cancels a pending one); and from a state in Manual mode with no
\* invocation in flight, a step is not the timer firing, starts an
\* invocation only as Grid_Ping or Sync_Directive, and leaves objects,
\* knowledgeBase and activePlan as they were.
C24_ManualIsQuiet ==
    /\ [](~isAuto => ~timer)
    /\ [][(~isAuto /\ InFlightCount = 0)
            => /\ ~TimerFire(TRUE)
               /\ started' # started => (GridPing(TRUE) \/ SyncDirective(TRUE))
               /\ state'.objects = state.objects
               /\ state'.knowledgeBase = state.knowledgeBase
               /\ state'.activePlan = state.activePlan
         ]_vars

\* Manual mode after an invocation has placed an object and the render
\* that followed: in Auto mode the timer would be armed here.
C24_Witness ==
    /\ ~isAuto
    /\ ~timer
    /\ InFlightCount = 0
    /\ ~renderPending
    /\ ~rendered.isProcessing
    /\ root = "mounted"
    /\ Len(state.objects) = 1
    /\ started < MaxTicks

\* C25: the counters agree. In every state totalBlocks, the number of
\* objects and learningIteration are equal, and the knowledge base has no
\* more entries than there are objects.
C25_CountersAgree ==
    /\ state.progression.totalBlocks = Len(state.objects)
    /\ state.learningIteration = Len(state.objects)
    /\ Len(state.knowledgeBase) <= Len(state.objects)

\* Three objects stand, and one of the placements found its title in the
\* knowledge base.
C25_Witness ==
    /\ Len(state.objects) = 3
    /\ state.learningIteration = 3
    /\ Len(state.knowledgeBase) = 2
    /\ InFlightCount = 0

\* The steps of a plan from its cursor on.
StepsFromCursor(plan) == SubSeq(plan.steps, plan.currentStepIndex + 1, Len(plan.steps))

\* C26: one object per plan step. When every placement follows the plan
\* introduced in the empty world, the objects are, in order, at the
\* horizontal coordinates and of the types of that plan's steps from its
\* initial cursor on, one object per step; and once the plan is cleared and
\* nothing is in flight there are as many objects as such steps.
C26_OneObjectPerStep ==
    state.objects # << >> =>
        \E plan \in FollowedPlans :
            LET rest == StepsFromCursor(plan)
            IN  /\ Len(state.objects) <= Len(rest)
                /\ \A i \in 1..Len(state.objects) :
                       /\ i <= Len(rest)
                       /\ state.objects[i].type = rest[i].type
                       /\ state.objects[i].position[1] = rest[i].position[1]
                       /\ state.objects[i].position[3] = rest[i].position[3]
                /\ (~IsDefined(state.activePlan) /\ InFlightCount = 0)
                       => Len(state.objects) = Len(rest)

\* C27: the active plan is well formed. With every plan of the service
\* arriving with a valid cursor and all steps pending, an active plan has
\* its cursor on one of its steps, that step is 'active', and no step after
\* it is 'completed'.
C27_ActivePlanWellFormed ==
    IsDefined(state.activePlan) =>
        LET plan == state.activePlan[1]
        IN  /\ StepDefined(plan)
            /\ CurrentStep(plan).status = "active"
            /\ \A i \in (plan.currentStepIndex + 2)..Len(plan.steps) :
                   plan.steps[i].status # "completed"

\* A plan introduced at its second step has been followed to its third.
C27_Witness ==
    /\ IsDefined(state.activePlan)
    /\ state.activePlan[1].planId = "plan-three"
    /\ state.activePlan[1].currentStepIndex = 2
    /\ state.activePlan[1].steps[2].status = "completed"
    /\ state.activePlan[1].steps[3].status = "active"

\* C28: no lost updates. Only a panel button changes state.ui: no step of
\* an invocation does, so a panel toggled while an invocation is in flight
\* stays as toggled through the PLACE update and the final status reset;
\* and the step that commits a PLACE and resets the status keeps every log
\* entry, among them those the invocation appended.
C28_NoLostUpdates ==
    [][/\ state'.ui # state.ui => ticks' = ticks
       /\ \A t \in Slots :
            Steps(t) => /\ state'.ui = state.ui
                        /\ IsPrefix(state.logs, state'.logs)
       /\ \A t \in Slots :
            Commits(t) => /\ state'.logs = state.logs
                          /\ ticks[t].logged >= 1
                          /\ Len(state'.logs) > ticks[t].logged
      ]_vars

\* The one invocation so far has narrated a step, logged its deployment and
\* committed its PLACE; the stats panel is closed, and the last render is
\* one from while the invocation was in flight.
C28_Witness ==
    /\ started = 1
    /\ InFlightCount = 0
    /\ Len(state.objects) = 1
    /\ ~state.ui.showStats
    /\ Len(state.logs) = 3
    /\ state.logs[2].type = "thinking"
    /\ rendered.isProcessing
    /\ renderPending

\* C29: the idle label follows the mode. The step that ends an invocation
\* leaves the task label of the mode in effect at that step: 'Streaming
\* Neural Data...' in Auto mode and 'Manual Standby' in Manual mode.
C29_IdleLabelOfMode ==
    [][\A t \in Slots :
          Ends(t) => currentTask' = (IF isAuto' THEN "Streaming Neural Data..."
                                               ELSE "Manual Standby")
      ]_vars

\* C30: the avatar stands on the terrain. In every state the avatar's
\* vertical coordinate is getTerrainHeight of its horizontal coordinates;
\* and when a PLACE is committed the avatar is at the position of the
\* object just placed.
C30_AvatarOnTerrain ==
    /\ [](avatarPos[2] = getTerrainHeight(avatarPos[1], avatarPos[3]))
    /\ [][\A t \in Slots :
            Commits(t) => avatarPos' = Last(state'.objects).position
         ]_vars

====
